---- MODULE Spec2Model ----
(***************************************************************************)
(* Secure-deletion and process-lifecycle cleanup subsystem of MCSCA.       *)
(*                                                                         *)
(*   Part I   CleanupManager (tools/wipe_manager.py, tools/wipe_core.py):  *)
(*            wipe(), add_paths, add_secret and the termination hooks,     *)
(*            run by a main thread and daemon worker threads.              *)
(*   Part II  CleanupManager() construction (__new__ / __init__) raced by  *)
(*            several threads.                                             *)
(*   Part III shred_file (core/secure_delete.py) on a small filesystem.    *)
(*   Part IV  shred_directory (core/secure_delete.py) over a small tree,    *)
(*            with the shred_file calls it makes.                          *)
(*   Part V   two shred_file calls on one target, started on two worker    *)
(*            threads (tools/shredder_dialogs.py _run_thread).            *)
(***************************************************************************)
EXTENDS Integers, Sequences, FiniteSets, TLC

\* ------------------------------------------------------------------------
\* Bounds of the model
\* ------------------------------------------------------------------------
MaxSecrets == 1   \* add_secret calls explored
MaxSignals == 1   \* signal handlers nested on the main thread at one time

Threads == {"main", "w1"}
Workers == Threads \ {"main"}

\* wipe_manager.py:14-18: the three default wipe targets
_DEFAULT_PATHS == {"logs", "tmp", "temp_secure_chat"}
\* paths a caller may register with add_paths
ExtraPaths == {"extra"}
AllPaths == _DEFAULT_PATHS \cup ExtraPaths

\* secret material handed to add_secret (byte strings)
SecretInputs == {<<7, 9>>}

HookKinds == {"signal", "excepthook", "thread_excepthook"}
Kinds == HookKinds \cup {"call", "atexit"}

VARIABLES
    WIPE_FILES,   \* module flag wipe_manager.py:44
    paths,        \* CleanupManager.paths
    key_blobs,    \* CleanupManager.key_blobs: list of bytearray
    locked,       \* CleanupManager._lock (threading.Lock: held or not)
    ran,          \* CleanupManager._ran
    stack,        \* per thread: the frames executing wipe(), innermost last
    dead,         \* worker threads that have ended
    phase,        \* "running" | "exiting" | "atexit" | "ended"
    fs,           \* filesystem state of every wipe target
    clipboard,    \* live clipboard slot
    caller_bufs,  \* the buffers the callers of add_secret passed in and hold
    obs           \* history of what happened (observations, not program state)

mgrVars == <<WIPE_FILES, paths, key_blobs, locked, ran, stack, dead, phase,
             fs, clipboard, caller_bufs, obs>>

VARIABLES
    cls_instance, \* CleanupManager._instance: 0 is None, else an object id
    objs,         \* the attributes of every CleanupManager object made
    ctor,         \* per thread: where its CleanupManager() call stands
    cobs          \* history of the constructions (observations)

ctorVars == <<cls_instance, objs, ctor, cobs>>

VARIABLES
    ent,          \* directory entries: path -> file (inode) or symlink
    inodes,       \* inode -> link count, size, content (one tag per chunk)
    sf,           \* the shred_file call: arguments, locals, position, result
    shobs,        \* history of the call (observations)
    sd,           \* the shred_directory call: arguments, locals, position, result
    peer          \* the shred_file call of the worker thread that is not running

shredVars == <<ent, inodes, sf, shobs, sd, peer>>

vars == <<mgrVars, ctorVars, shredVars>>

\* ------------------------------------------------------------------------
\* wipe_core.py helpers
\* ------------------------------------------------------------------------
Zeros(n) == [j \in 1..n |-> 0]

scrub_bytes_off_by_one(buf) == [j \in 1..Len(buf) |-> IF j = Len(buf) THEN buf[j] ELSE 0]

\* wipe_core.py:63-74: every byte of the bytearray set to 0, length kept
scrub_bytes(buf) == [j \in 1..Len(buf) |-> 0]

\* wipe_core.py:43-60: outcomes of shred_path on one target: a missing path
\* is left alone; otherwise the target is overwritten and removed, or an OS
\* error is raised before or after bytes were overwritten.
shred_path(fsys, p) ==
    IF fsys[p] = "absent"
    THEN {[fs |-> fsys, exc |-> FALSE]}
    ELSE {[fs |-> [fsys EXCEPT ![p] = "absent"], exc |-> FALSE],
          [fs |-> fsys, exc |-> TRUE],
          [fs |-> [fsys EXCEPT ![p] = "overwritten"], exc |-> TRUE]}

\* wipe_core.py:85-95: the live clipboard slot is emptied
flush_clipboard(clip) == ""

\* ------------------------------------------------------------------------
\* Frames
\* ------------------------------------------------------------------------
NewFrame(k) == [kind |-> k, pc |-> "acquire", todo |-> {}, i |-> 0, did |-> FALSE]

Top(t) == stack[t][Len(stack[t])]
SetTop(t, f) == [stack EXCEPT ![t][Len(stack[t])] = f]
Push(t, f) == [stack EXCEPT ![t] = Append(@, f)]
Pop(t) == [stack EXCEPT ![t] = SubSeq(@, 1, Len(@) - 1)]

BodyPcs == {"check", "setran", "paths", "secrets"}

NestedSignals ==
    Cardinality({j \in 1..Len(stack["main"]) : stack["main"][j].kind = "signal"})

Alive(t) == phase # "ended" /\ t \notin dead
Running(t) == Alive(t) /\ stack[t] # <<>>
Idle(t) == Alive(t) /\ stack[t] = <<>> /\ (t = "main" => phase = "running")

\* ------------------------------------------------------------------------
\* Init: the state after CleanupManager() has been constructed on the main
\* thread (wipe_manager.py:55-62) and its hooks are registered.
\* ------------------------------------------------------------------------
MgrInit ==
    /\ WIPE_FILES \in BOOLEAN
    /\ paths = _DEFAULT_PATHS
    /\ key_blobs = <<>>
    /\ locked = FALSE
    /\ ran = FALSE
    /\ stack = [t \in Threads |-> <<>>]
    /\ dead = {}
    /\ phase = "running"
    /\ fs = [p \in AllPaths |-> IF p \in {"logs", "extra"} THEN "intact" ELSE "absent"]
    /\ clipboard = "SENSITIVE"
    /\ caller_bufs = <<>>
    /\ obs = [fs0 |-> fs, registered |-> <<>>, scrubs |-> <<>>, flushes |-> 0,
              bodyRuns |-> 0, bodyDone |-> FALSE, bodyBy |-> "none",
              nBegin |-> 0, snapBegin |-> {}, tried |-> {},
              propagated |-> FALSE]

\* ------------------------------------------------------------------------
\* Public API
\* ------------------------------------------------------------------------
\* wipe_manager.py:65  add_paths: self.paths.update(paths), no lock taken
add_paths(t, ps) ==
    /\ Idle(t)
    /\ ~(ps \subseteq paths)
    /\ paths' = paths \cup ps
    /\ UNCHANGED <<WIPE_FILES, key_blobs, locked, ran, stack, dead, phase, fs,
                   clipboard, obs,
                   caller_bufs, ctorVars, shredVars>>

\* bytearray(secret): a new buffer object holding the same bytes
bytearray(s) == [j \in 1..Len(s) |-> s[j]]

\* wipe_manager.py:66  add_secret: appends a private bytearray copy, no lock
add_secret(t, s) ==
    /\ Idle(t)
    /\ Len(key_blobs) < MaxSecrets
    /\ key_blobs' = Append(key_blobs, bytearray(s))
    /\ caller_bufs' = Append(caller_bufs, s)
    /\ obs' = [obs EXCEPT !.registered = Append(@, s), !.scrubs = Append(@, 0)]
    /\ UNCHANGED <<WIPE_FILES, paths, locked, ran, stack, dead, phase, fs,
                   clipboard,
                   ctorVars, shredVars>>

\* an explicit wipe() call (wipe_button.py:20)
CallWipe(t) ==
    /\ Idle(t)
    /\ stack' = Push(t, NewFrame("call"))
    /\ UNCHANGED <<WIPE_FILES, paths, key_blobs, locked, ran, dead, phase, fs,
                   clipboard, obs,
                   caller_bufs, ctorVars, shredVars>>

\* ------------------------------------------------------------------------
\* wipe()  (wipe_manager.py:69-80)
\* ------------------------------------------------------------------------
WipeAcquireNoWait(t) ==
    /\ Running(t)
    /\ Top(t).pc = "acquire"
    /\ locked' = TRUE
    /\ stack' = SetTop(t, [Top(t) EXCEPT !.pc = "check"])
    /\ UNCHANGED <<WIPE_FILES, paths, key_blobs, ran, dead, phase, fs,
                   clipboard, obs,
                   caller_bufs, ctorVars, shredVars>>

\* line 70  with self._lock: blocks until the (non-reentrant) lock is free
WipeAcquire(t) ==
    /\ Running(t)
    /\ Top(t).pc = "acquire"
    /\ ~locked
    /\ locked' = TRUE
    /\ stack' = SetTop(t, [Top(t) EXCEPT !.pc = "check"])
    /\ UNCHANGED <<WIPE_FILES, paths, key_blobs, ran, dead, phase, fs,
                   clipboard, obs,
                   caller_bufs, ctorVars, shredVars>>

\* line 71  if self._ran: return   (leaving the with block releases the lock)
WipeCheck(t) ==
    /\ Running(t)
    /\ Top(t).pc = "check"
    /\ IF ran
       THEN /\ locked' = FALSE
            /\ stack' = SetTop(t, [Top(t) EXCEPT !.pc = "ret"])
       ELSE /\ stack' = SetTop(t, [Top(t) EXCEPT !.pc = "setran"])
            /\ UNCHANGED locked
    /\ UNCHANGED <<WIPE_FILES, paths, key_blobs, ran, dead, phase, fs,
                   clipboard, obs,
                   caller_bufs, ctorVars, shredVars>>

\* where the body goes after _ran is set: the path loop over list(self.paths)
\* when the policy flag is on, else the secret loop
BodyStart(f, files) ==
    IF files /\ paths # {}
    THEN [f EXCEPT !.pc = "paths", !.todo = paths, !.did = TRUE]
    ELSE [f EXCEPT !.pc = "secrets", !.i = 1, !.did = TRUE]

WipeSetRanEffect(t, setFlag, files) ==
    /\ Running(t)
    /\ Top(t).pc = "setran"
    /\ ran' = (setFlag \/ ran)
    /\ stack' = SetTop(t, BodyStart(Top(t), files))
    /\ obs' = [obs EXCEPT !.bodyRuns = @ + 1, !.bodyBy = Top(t).kind,
                          !.nBegin = Len(key_blobs),
                          !.snapBegin = paths]
    /\ UNCHANGED <<WIPE_FILES, paths, key_blobs, locked, dead, phase, fs,
                   clipboard,
                   caller_bufs, ctorVars, shredVars>>


\* the lock given up as soon as _ran is set, the body running outside of it
WipeSetRanReleasing(t) ==
    /\ Running(t)
    /\ Top(t).pc = "setran"
    /\ ran' = TRUE
    /\ locked' = FALSE
    /\ stack' = SetTop(t, BodyStart(Top(t), WIPE_FILES))
    /\ obs' = [obs EXCEPT !.bodyRuns = @ + 1, !.bodyBy = Top(t).kind,
                          !.nBegin = Len(key_blobs),
                          !.snapBegin = paths]
    /\ UNCHANGED <<WIPE_FILES, paths, key_blobs, dead, phase, fs,
                   clipboard, caller_bufs, ctorVars, shredVars>>

WipeSetRanAlwaysShreds(t) == WipeSetRanEffect(t, TRUE, TRUE)

\* lines 72-74  self._ran = True; if WIPE_FILES: for p in list(self.paths)
WipeSetRan(t) == WipeSetRanEffect(t, TRUE, WIPE_FILES)

\* lines 74-76  for p in list(self.paths): try: shred_path(p)
\*                                          except Exception: print_exc()
\* The outcomes of the whole loop over the snapshot `todo`.  catch says
\* whether each call is wrapped in try/except: caught, a failure is followed
\* by the next path; uncaught, it ends the loop.  The targets are distinct
\* paths, so the set of outcomes does not depend on the iteration order.
RECURSIVE ShredAll(_, _, _)
ShredAll(fsys, todo, catch) ==
    IF todo = {}
    THEN {[fs |-> fsys, tried |-> {}, exc |-> FALSE]}
    ELSE LET p == CHOOSE q \in todo : TRUE IN
         UNION { IF o.exc /\ ~catch
                 THEN {[fs |-> o.fs, tried |-> {p}, exc |-> TRUE]}
                 ELSE {[fs |-> r.fs, tried |-> r.tried \cup {p}, exc |-> r.exc] :
                          r \in ShredAll(o.fs, todo \ {p}, catch)} :
                 o \in shred_path(fsys, p) }

\* The path loop runs under the lock on its own snapshot and is the only
\* writer of the wipe targets, so it is taken as one step.  An exception that
\* is not caught leaves the with block (lock released) and wipe() raises.
WipeShredPathsEffect(t, catch) ==
    /\ Running(t)
    /\ Top(t).pc = "paths"
    /\ \E o \in ShredAll(fs, Top(t).todo, catch) :
         /\ fs' = o.fs
         /\ IF o.exc
            THEN /\ locked' = FALSE
                 /\ stack' = SetTop(t, [Top(t) EXCEPT !.pc = "ret", !.todo = {}])
                 /\ obs' = [obs EXCEPT !.tried = o.tried, !.bodyDone = TRUE,
                                       !.propagated = TRUE]
            ELSE /\ UNCHANGED locked
                 /\ stack' = SetTop(t, [Top(t) EXCEPT !.pc = "secrets",
                                                      !.todo = {}, !.i = 1])
                 /\ obs' = [obs EXCEPT !.tried = o.tried]
    /\ UNCHANGED <<WIPE_FILES, paths, key_blobs, ran, dead, phase, clipboard,
                   caller_bufs, ctorVars, shredVars>>

WipeShredPathsUncaught(t) == WipeShredPathsEffect(t, FALSE)

WipeShredPaths(t) == WipeShredPathsEffect(t, TRUE)

\* the registry holding the caller's own buffer object instead of a copy:
\* scrubbing entry i zeroes the caller's buffer as well
WipeScrubAliased(t) ==
    /\ Running(t)
    /\ Top(t).pc = "secrets"
    /\ Top(t).i <= Len(key_blobs)
    /\ key_blobs' = [key_blobs EXCEPT ![Top(t).i] = scrub_bytes(@)]
    /\ caller_bufs' = [caller_bufs EXCEPT ![Top(t).i] = scrub_bytes(@)]
    /\ stack' = SetTop(t, [Top(t) EXCEPT !.i = @ + 1])
    /\ obs' = [obs EXCEPT !.scrubs[Top(t).i] = @ + 1]
    /\ UNCHANGED <<WIPE_FILES, paths, locked, ran, dead, phase, fs, clipboard,
                   ctorVars, shredVars>>

\* lines 77-79  for k in self.key_blobs: try: scrub_bytes(k)
\* The loop iterates the live list: the iterator compares its index with the
\* list's current length on every step, so an entry appended while the loop
\* runs is visited too.
WipeScrub(t) ==
    /\ Running(t)
    /\ Top(t).pc = "secrets"
    /\ Top(t).i <= Len(key_blobs)
    /\ key_blobs' = [key_blobs EXCEPT ![Top(t).i] = scrub_bytes(@)]
    /\ stack' = SetTop(t, [Top(t) EXCEPT !.i = @ + 1])
    /\ obs' = [obs EXCEPT !.scrubs[Top(t).i] = @ + 1]
    /\ UNCHANGED <<WIPE_FILES, paths, locked, ran, dead, phase, fs, clipboard,
                   caller_bufs, ctorVars, shredVars>>

\* line 80  the loop is exhausted; flush_clipboard(); the with block ends and
\* the lock is released
WipeFlush(t) ==
    /\ Running(t)
    /\ Top(t).pc = "secrets"
    /\ Top(t).i > Len(key_blobs)
    /\ clipboard' = flush_clipboard(clipboard)
    /\ locked' = FALSE
    /\ stack' = SetTop(t, [Top(t) EXCEPT !.pc = "ret"])
    /\ obs' = [obs EXCEPT !.flushes = @ + 1, !.bodyDone = TRUE]
    /\ UNCHANGED <<WIPE_FILES, paths, key_blobs, ran, dead, phase, fs,
                   caller_bufs, ctorVars, shredVars>>

\* ------------------------------------------------------------------------
\* Hooks (wipe_manager.py:83-108) and process lifecycle
\* ------------------------------------------------------------------------
SignalSkippingWipe ==
    /\ phase # "ended"
    /\ NestedSignals < MaxSignals
    /\ stack' = Push("main", [NewFrame("signal") EXCEPT !.pc = "ret"])
    /\ UNCHANGED <<WIPE_FILES, paths, key_blobs, locked, ran, dead, phase, fs,
                   clipboard, obs,
                   caller_bufs, ctorVars, shredVars>>

\* lines 85-87, 98-100: SIGINT/SIGTERM; Python runs the handler on the main
\* thread, on top of whatever the main thread is executing
Signal ==
    /\ phase # "ended"
    /\ NestedSignals < MaxSignals
    /\ stack' = Push("main", NewFrame("signal"))
    /\ UNCHANGED <<WIPE_FILES, paths, key_blobs, locked, ran, dead, phase, fs,
                   clipboard, obs,
                   caller_bufs, ctorVars, shredVars>>

\* lines 91-92, 102-108: an uncaught exception reaches sys.excepthook (main
\* thread) or threading.excepthook (worker thread)
Uncaught(t) ==
    /\ Idle(t)
    /\ stack' = Push(t, NewFrame(IF t = "main" THEN "excepthook"
                                                ELSE "thread_excepthook"))
    /\ UNCHANGED <<WIPE_FILES, paths, key_blobs, locked, ran, dead, phase, fs,
                   clipboard, obs,
                   caller_bufs, ctorVars, shredVars>>

\* the main thread returns normally (the GUI was closed)
GracefulExit ==
    /\ Idle("main")
    /\ phase' = "exiting"
    /\ UNCHANGED <<WIPE_FILES, paths, key_blobs, locked, ran, stack, dead, fs,
                   clipboard, obs,
                   caller_bufs, ctorVars, shredVars>>

\* line 89  atexit.register(self.wipe): the exit hook runs on the main thread
AtExit ==
    /\ phase = "exiting"
    /\ stack["main"] = <<>>
    /\ phase' = "atexit"
    /\ stack' = Push("main", NewFrame("atexit"))
    /\ UNCHANGED <<WIPE_FILES, paths, key_blobs, locked, ran, dead, fs,
                   clipboard, obs,
                   caller_bufs, ctorVars, shredVars>>

\* what follows the return of wipe() in each caller:
\*   explicit call      the caller goes on
\*   _sig_handler       sys.exit(0): SystemExit unwinds the main thread
\*   _excepthook        sys.exit(1) on the terminating main thread
\*   _thread_excepthook sys.exit(1): SystemExit ends the worker thread only
\*   atexit             the interpreter finishes: the process has ended
Return(t) ==
    /\ Running(t)
    /\ Top(t).pc = "ret"
    /\ LET k == Top(t).kind IN
       CASE k = "call" ->
              /\ stack' = Pop(t)
              /\ UNCHANGED <<dead, phase>>
         [] k \in {"signal", "excepthook"} ->
              /\ stack' = [stack EXCEPT ![t] = <<>>]
              /\ phase' = IF phase = "running" THEN "exiting" ELSE "ended"
              /\ UNCHANGED dead
         [] k = "thread_excepthook" ->
              /\ stack' = [stack EXCEPT ![t] = <<>>]
              /\ dead' = dead \cup {t}
              /\ UNCHANGED phase
         [] k = "atexit" ->
              /\ stack' = [stack EXCEPT ![t] = <<>>]
              /\ phase' = "ended"
              /\ UNCHANGED dead
    /\ UNCHANGED <<WIPE_FILES, paths, key_blobs, locked, ran, fs, clipboard, obs,
                   caller_bufs, ctorVars, shredVars>>

MgrNext ==
    \/ \E t \in Threads : \E ps \in (SUBSET ExtraPaths) \ {{}} : add_paths(t, ps)
    \/ \E t \in Threads : \E s \in SecretInputs : add_secret(t, s)
    \/ \E t \in Threads : CallWipe(t)
    \/ \E t \in Threads : WipeAcquire(t)
    \/ \E t \in Threads : WipeCheck(t)
    \/ \E t \in Threads : WipeSetRan(t)
    \/ \E t \in Threads : WipeShredPaths(t)
    \/ \E t \in Threads : WipeScrub(t)
    \/ \E t \in Threads : WipeFlush(t)
    \/ Signal
    \/ \E t \in Threads : Uncaught(t)
    \/ GracefulExit
    \/ AtExit
    \/ \E t \in Threads : Return(t)

\* ------------------------------------------------------------------------
\* Part II: construction  (wipe_manager.py:47-62)
\* ------------------------------------------------------------------------
ObjIds == 1..Cardinality(Threads)

NoObj == [made |-> FALSE, init_done |-> FALSE, has_secret |-> FALSE, ran |-> FALSE]

CtorIdle == [pc |-> "idle", self |-> 0, none |-> FALSE, ref |-> 0]

CtorInit ==
    /\ cls_instance = 0
    /\ objs = [o \in ObjIds |-> NoObj]
    /\ ctor = [t \in Threads |-> CtorIdle]
    /\ cobs = [got |-> {}, inits |-> 0, hooks |-> 0, reset |-> FALSE,
               raised |-> FALSE]

\* line 51  if cls._instance is None:   (the test, read on its own)
NewCheck(t) ==
    /\ ctor[t].pc = "idle"
    /\ ctor' = [ctor EXCEPT ![t].pc = IF cls_instance = 0 THEN "new_make" ELSE "new_ret",
                            ![t].none = (cls_instance = 0)]
    /\ UNCHANGED <<cls_instance, objs, cobs, mgrVars, shredVars>>

\* line 52  cls._instance = super().__new__(cls)
NewMake(t) ==
    /\ ctor[t].pc = "new_make"
    /\ \E o \in ObjIds :
         /\ ~objs[o].made
         /\ \A q \in ObjIds : q < o => objs[q].made
         /\ objs' = [objs EXCEPT ![o].made = TRUE]
         /\ cls_instance' = o
    /\ ctor' = [ctor EXCEPT ![t].pc = "new_ret"]
    /\ UNCHANGED <<cobs, mgrVars, shredVars>>

\* line 53  return cls._instance   (the class attribute is read again)
NewReturn(t) ==
    /\ ctor[t].pc = "new_ret"
    /\ ctor' = [ctor EXCEPT ![t].pc = "init_check", ![t].self = cls_instance]
    /\ UNCHANGED <<cls_instance, objs, cobs, mgrVars, shredVars>>

\* line 56  if getattr(self, "_init_done", False): return
InitCheck(t) ==
    /\ ctor[t].pc = "init_check"
    /\ IF objs[ctor[t].self].init_done
       THEN /\ ctor' = [ctor EXCEPT ![t].pc = "idle", ![t].ref = ctor[t].self]
            /\ cobs' = [cobs EXCEPT !.got = @ \cup {ctor[t].self}]
       ELSE /\ ctor' = [ctor EXCEPT ![t].pc = "init_body"]
            /\ UNCHANGED cobs
    /\ UNCHANGED <<cls_instance, objs, mgrVars, shredVars>>

\* lines 57-61  paths, key_blobs, _lock and _ran are (re)assigned, then
\* _init_done = True
InitBody(t) ==
    /\ ctor[t].pc = "init_body"
    /\ LET o == ctor[t].self IN
         /\ cobs' = [cobs EXCEPT !.inits = @ + 1,
                                 !.reset = @ \/ objs[o].has_secret \/ objs[o].ran]
         /\ objs' = [objs EXCEPT ![o] = [made |-> TRUE, init_done |-> TRUE,
                                         has_secret |-> FALSE, ran |-> FALSE]]
    /\ ctor' = [ctor EXCEPT ![t].pc = "hooks"]
    /\ UNCHANGED <<cls_instance, mgrVars, shredVars>>

\* line 62, 83-92  _register_hooks: signal.signal() raises ValueError off the
\* main thread, before anything is registered, and __init__ raises
RegisterHooks(t) ==
    /\ ctor[t].pc = "hooks"
    /\ IF t = "main"
       THEN /\ cobs' = [cobs EXCEPT !.hooks = @ + 1, !.got = @ \cup {ctor[t].self}]
            /\ ctor' = [ctor EXCEPT ![t].pc = "idle", ![t].ref = ctor[t].self]
       ELSE /\ cobs' = [cobs EXCEPT !.raised = TRUE]
            /\ ctor' = [ctor EXCEPT ![t].pc = "idle"]
    /\ UNCHANGED <<cls_instance, objs, mgrVars, shredVars>>

\* line 66  add_secret on the instance a construction returned
UseAddSecret(t) ==
    /\ ctor[t].pc = "idle"
    /\ ctor[t].ref # 0
    /\ ~objs[ctor[t].ref].has_secret
    /\ objs' = [objs EXCEPT ![ctor[t].ref].has_secret = TRUE]
    /\ UNCHANGED <<cls_instance, ctor, cobs, mgrVars, shredVars>>

\* lines 69-72  wipe() on the instance a construction returned sets _ran
UseWipe(t) ==
    /\ ctor[t].pc = "idle"
    /\ ctor[t].ref # 0
    /\ ~objs[ctor[t].ref].ran
    /\ objs' = [objs EXCEPT ![ctor[t].ref].ran = TRUE]
    /\ UNCHANGED <<cls_instance, ctor, cobs, mgrVars, shredVars>>

CtorNext ==
    \/ \E t \in Threads : NewCheck(t)
    \/ \E t \in Threads : NewMake(t)
    \/ \E t \in Threads : NewReturn(t)
    \/ \E t \in Threads : InitCheck(t)
    \/ \E t \in Threads : InitBody(t)
    \/ \E t \in Threads : RegisterHooks(t)
    \/ \E t \in Threads : UseAddSecret(t)
    \/ \E t \in Threads : UseWipe(t)

\* ------------------------------------------------------------------------
\* Part III: shred_file  (core/secure_delete.py)
\* ------------------------------------------------------------------------
\* secure_delete.py:49  _BUFFER = 1 << 16
_BUFFER == 65536
\* secure_delete.py:168  if passes < 1 or passes > 35
MIN_PASSES == 1
MAX_PASSES == 35

\* the paths of the scenario: the target, a sibling that has nothing to do
\* with the call, a second name of the target's inode, a symlink's referent
Target    == <<"d", "t">>
Sibling   == <<"d", "s">>
OtherLink == <<"d", "h">>
Referent  == <<"d", "r">>
Dirs      == {<<"d">>, <<"k">>}
\* names secrets.token_hex(8) may return (line 54)
RandNames == {"~r1", "~r2"}

\* inputs of the call
PassInputs  == {-1, 0, 1, 2, 3, 35, 36}
SizeInputs  == {0, 1000, _BUFFER, _BUFFER + 1}
TargetKinds == {"missing", "file", "hardlinked", "symlink_file", "symlink_dir",
                "symlink_dangling"}
KeepInputs  == {[keep_bytes |-> FALSE, keep_root |-> <<>>],
                [keep_bytes |-> TRUE,  keep_root |-> <<>>],
                [keep_bytes |-> TRUE,  keep_root |-> <<"k">>],
                [keep_bytes |-> TRUE,  keep_root |-> <<"d">>]}
Callbacks   == {"none", "ok", "raises"}

Min(a, b) == IF a < b THEN a ELSE b
Parent(p) == SubSeq(p, 1, Len(p) - 1)
Name(p) == p[Len(p)]
\* Path.with_name (line 55)
WithName(p, n) == Append(Parent(p), n)

NChunks(size) == (size + _BUFFER - 1) \div _BUFFER
FreshData(size) == [k \in 1..NChunks(size) |-> <<"orig">>]

\* Path.exists / Path.stat follow a symlink; Path.is_symlink does not
Resolve(p) == IF p \in DOMAIN ent /\ ent[p].kind = "symlink" THEN ent[p].to ELSE p
Exists(p) == Resolve(p) \in DOMAIN ent \/ Resolve(p) \in Dirs
IsSymlink(p) == p \in DOMAIN ent /\ ent[p].kind = "symlink"
\* a stat() that reports every file as singly linked
StNlinkAlwaysOne(p) == 1

StNlink(p) == IF Resolve(p) \in Dirs THEN 2 ELSE inodes[ent[Resolve(p)].ino].nlink

Without(f, p) == [q \in DOMAIN f \ {p} |-> f[q]]
With(f, p, v) == [q \in DOMAIN f \cup {p} |-> IF q = p THEN v ELSE f[q]]
\* the inode table after directory entry p is removed or replaced
Unlinked(tab, p) ==
    IF p \in DOMAIN ent /\ ent[p].kind = "file"
    THEN [tab EXCEPT ![ent[p].ino].nlink = @ - 1]
    ELSE tab

\* the filesystem of a scenario
ScenarioEnt(kind, clash) ==
    LET base == (Sibling :> [kind |-> "file", ino |-> 2])
        tgt == CASE kind = "missing" -> base
                 [] kind = "file" -> With(base, Target, [kind |-> "file", ino |-> 1])
                 [] kind = "hardlinked" ->
                        With(With(base, Target, [kind |-> "file", ino |-> 1]),
                             OtherLink, [kind |-> "file", ino |-> 1])
                 [] kind = "symlink_file" ->
                        With(With(base, Referent, [kind |-> "file", ino |-> 1]),
                             Target, [kind |-> "symlink", to |-> Referent])
                 [] kind = "symlink_dir" ->
                        With(base, Target, [kind |-> "symlink", to |-> <<"k">>])
                 [] kind = "symlink_dangling" ->
                        With(base, Target, [kind |-> "symlink", to |-> Referent])
    IN IF clash THEN With(tgt, <<"d", "~r1">>, [kind |-> "file", ino |-> 3]) ELSE tgt

ScenarioInodes(kind, size, clash) ==
    (1 :> [nlink |-> IF kind = "hardlinked" THEN 2
                     ELSE IF kind \in {"file", "symlink_file"} THEN 1 ELSE 0,
           size |-> size, data |-> FreshData(size)])
    @@ (2 :> [nlink |-> 1, size |-> 1000, data |-> FreshData(1000)])
    @@ (3 :> [nlink |-> IF clash THEN 1 ELSE 0, size |-> 1000, data |-> FreshData(1000)])

NoResult == [ok |-> FALSE, msg |-> "", cause |-> "pending", raised |-> FALSE]

\* no shred_directory call in sight
DirParked == sd = [pc |-> "none"]

\* no second worker thread in sight
PeerParked == peer = [pc |-> "none"]

\* the call shred_file(path, passes=, keep_bytes=, keep_root=, progress=)
\* about to run line 157 on a filesystem holding the target
ShredInit ==
    \E kind \in TargetKinds, size \in SizeInputs, clash \in BOOLEAN,
       n \in PassInputs, keep \in KeepInputs, cb \in Callbacks, faulty \in BOOLEAN :
       /\ (kind \notin {"file", "hardlinked", "symlink_file"} => size = 0)
       /\ ent = ScenarioEnt(kind, clash)
       /\ inodes = ScenarioInodes(kind, size, clash)
       /\ sf = [pc |-> "exists", path |-> Target, passes |-> n,
                keep_bytes |-> keep.keep_bytes, keep_root |-> keep.keep_root,
                progress |-> cb, faulty |-> faulty, scrambled |-> <<>>,
                size |-> 0, p |-> 0, written |-> 0, result |-> NoResult]
       /\ shobs = [kind |-> kind, ent0 |-> ent, inodes0 |-> inodes,
                   queried |-> FALSE, ioerr |-> FALSE, draws |-> 0, calls |-> 0,
                   synced |-> 0]
       /\ DirParked
       /\ PeerParked

\* no shred_file call in sight (Parts I and II)
ShredParked ==
    /\ ent = <<>>
    /\ inodes = <<>>
    /\ sf = [pc |-> "none"]
    /\ shobs = <<>>
    /\ DirParked
    /\ PeerParked

\* the class of the exception behind each cause of failure: ShredError
\* (lines 160-166, 180, 212-215, 236), ValueError (line 169), OSError from
\* the operating system, AttributeError from _is_subdir on a str (line 103),
\* and whatever Exception the caller's progress callback raises
ExcClass(cause) ==
    CASE cause = "passes" -> "ValueError"
      [] cause = "io" -> "OSError"
      [] cause \in {"stat_gone", "rename_gone"} -> "OSError"
      [] cause = "attribute" -> "AttributeError"
      [] cause = "callback" -> "CallbackError"
      [] OTHER -> "ShredError"

ExceptionSubclasses ==
    {"ShredError", "ValueError", "OSError", "AttributeError", "CallbackError"}

\* a handler that catches ShredError only
HandledShredErrorOnly(cls) == cls = "ShredError"

\* lines 190, 242  except Exception as exc
Handled(cls) == cls \in ExceptionSubclasses

\* the outcome of an exception raised inside the try block: the pair of the
\* handler when it catches, the exception at the caller otherwise
Outcome(cause, text) ==
    IF Handled(ExcClass(cause))
    THEN [ok |-> FALSE, msg |-> text, cause |-> cause, raised |-> FALSE]
    ELSE [ok |-> FALSE, msg |-> "", cause |-> cause, raised |-> TRUE]

\* lines 190-192  except Exception as exc: return False, f"shred error: {exc}"
Failed(cause, text) ==
    [sf EXCEPT !.pc = "done", !.result = Outcome(cause, text)]
IoFailed == Failed("io", "shred error: [Errno] I/O error")

\* line 159  if not path.exists(): raise ShredError("target does not exist")
SfExists ==
    /\ sf.pc = "exists"
    /\ sf' = IF Exists(sf.path) THEN [sf EXCEPT !.pc = "is_symlink"]
             ELSE Failed("missing", "shred error: target does not exist")
    /\ shobs' = [shobs EXCEPT !.queried = TRUE]
    /\ UNCHANGED <<ent, inodes, sd, peer, mgrVars, ctorVars>>

\* line 162  if path.is_symlink(): raise ShredError(...)
SfIsSymlink ==
    /\ sf.pc = "is_symlink"
    /\ sf' = IF IsSymlink(sf.path)
             THEN Failed("symlink", "shred error: refusing to shred symbolic link")
             ELSE [sf EXCEPT !.pc = "nlink"]
    /\ UNCHANGED <<ent, inodes, shobs, sd, peer, mgrVars, ctorVars>>

\* line 165  if path.stat().st_nlink > 1: raise ShredError(...)
\* stat() raises FileNotFoundError, an OSError, on a path that is gone
SfNlink ==
    /\ sf.pc = "nlink"
    /\ sf' = IF ~Exists(sf.path)
             THEN Failed("stat_gone", "shred error: [Errno 2] No such file or directory")
             ELSE IF StNlink(sf.path) > 1
             THEN Failed("hardlink", "shred error: refusing to shred hard-linked file")
             ELSE [sf EXCEPT !.pc = "passes"]
    /\ UNCHANGED <<ent, inodes, shobs, sd, peer, mgrVars, ctorVars>>

\* the range check with its upper limit one too low
PassesRejectedBelowLimit(n) == n < MIN_PASSES \/ n >= MAX_PASSES

PassesRejected(n) == n < MIN_PASSES \/ n > MAX_PASSES

\* line 168  if passes < 1 or passes > 35: raise ValueError("passes must be 1-35")
\* lines 172-173: the SSD heuristic only logs a warning
SfPasses ==
    /\ sf.pc = "passes"
    /\ sf' = IF PassesRejected(sf.passes)
             THEN Failed("passes", "shred error: passes must be 1-35")
             ELSE [sf EXCEPT !.pc = "rename"]
    /\ UNCHANGED <<ent, inodes, shobs, sd, peer, mgrVars, ctorVars>>

\* the overwrite started on the file under its original name
SfRenameInPlace ==
    /\ sf.pc = "rename"
    /\ sf' = [sf EXCEPT !.pc = "open", !.scrambled = sf.path]
    /\ UNCHANGED <<ent, inodes, shobs, sd, peer, mgrVars, ctorVars>>

\* a scramble that links the file under the drawn name and leaves the
\* original name in place
SfRenameLinking ==
    /\ sf.pc = "rename"
    /\ IF sf.path \notin DOMAIN ent
       THEN /\ sf' = Failed("rename_gone",
                            "shred error: [Errno 2] No such file or directory")
            /\ UNCHANGED <<ent, inodes, shobs>>
       ELSE \E r \in RandNames :
               LET new == WithName(sf.path, r) IN
               /\ ent' = With(ent, new, ent[sf.path])
               /\ inodes' = [Unlinked(inodes, new) EXCEPT ![ent[sf.path].ino].nlink = @ + 1]
               /\ sf' = [sf EXCEPT !.pc = "open", !.scrambled = new]
               /\ UNCHANGED shobs
    /\ UNCHANGED <<sd, peer, mgrVars, ctorVars>>

\* lines 52-57, 175  _secure_rename: os.replace(path, path.with_name(rand))
\* replaces whatever file bears the drawn name, and raises FileNotFoundError,
\* an OSError, when the source is gone
SfRename ==
    /\ sf.pc = "rename"
    /\ IF sf.path \notin DOMAIN ent
       THEN /\ sf' = Failed("rename_gone",
                            "shred error: [Errno 2] No such file or directory")
            /\ UNCHANGED <<ent, inodes, shobs>>
       ELSE \/ \E r \in RandNames :
                 LET new == WithName(sf.path, r) IN
                 /\ ent' = With(Without(ent, sf.path), new, ent[sf.path])
                 /\ inodes' = Unlinked(inodes, new)
                 /\ sf' = [sf EXCEPT !.pc = "open", !.scrambled = new]
                 /\ UNCHANGED shobs
            \/ /\ sf.faulty
               /\ sf' = IoFailed
               /\ shobs' = [shobs EXCEPT !.ioerr = TRUE]
               /\ UNCHANGED <<ent, inodes>>
    /\ UNCHANGED <<sd, peer, mgrVars, ctorVars>>

\* a failing open that puts the file back under its original name
SfOpenRollingBack ==
    /\ sf.pc = "open"
    /\ \/ /\ sf' = [sf EXCEPT !.pc = "write", !.p = 1, !.written = 0,
                              !.size = inodes[ent[sf.scrambled].ino].size]
          /\ shobs' = [shobs EXCEPT !.synced = 0]
          /\ UNCHANGED ent
       \/ /\ sf.faulty
          /\ sf' = IoFailed
          /\ shobs' = [shobs EXCEPT !.ioerr = TRUE]
          /\ ent' = With(Without(ent, sf.scrambled), sf.path, ent[sf.scrambled])
    /\ UNCHANGED <<inodes, sd, peer, mgrVars, ctorVars>>

\* lines 115-117  size = file.stat().st_size; file.open("r+b", buffering=0)
\* No pass of this _overwrite call has been synced yet.
SfOpen ==
    /\ sf.pc = "open"
    /\ \/ /\ sf' = [sf EXCEPT !.pc = "write", !.p = 1, !.written = 0,
                              !.size = inodes[ent[sf.scrambled].ino].size]
          /\ shobs' = [shobs EXCEPT !.synced = 0]
       \/ /\ sf.faulty
          /\ sf' = IoFailed
          /\ shobs' = [shobs EXCEPT !.ioerr = TRUE]
    /\ UNCHANGED <<ent, inodes, sd, peer, mgrVars, ctorVars>>

\* the random fill given to the first pass instead of the last
ChunkFillRandomFirst(p, passes, draw) ==
    IF p = 1 THEN <<"random", draw>> ELSE <<"pattern", p % 256>>

\* lines 120-123: the last pass writes os.urandom(chunk), drawn anew for every
\* chunk; every earlier pass writes the byte p % 256
ChunkFill(p, passes, draw) ==
    IF p = passes THEN <<"random", draw>> ELSE <<"pattern", p % 256>>

\* lines 121-125  one chunk of pass p: fh.write(data); written += chunk
SfWrite ==
    /\ sf.pc = "write"
    /\ sf.written < sf.size
    /\ \/ LET chunk == Min(_BUFFER, sf.size - sf.written)
              k == (sf.written \div _BUFFER) + 1
              ino == ent[sf.scrambled].ino
          IN /\ inodes' = [inodes EXCEPT ![ino].data[k] =
                                ChunkFill(sf.p, sf.passes, shobs.draws + 1)]
             /\ sf' = [sf EXCEPT !.written = @ + chunk]
             /\ shobs' = [shobs EXCEPT !.draws = IF sf.p = sf.passes THEN @ + 1 ELSE @]
       \/ /\ sf.faulty
          /\ sf' = IoFailed
          /\ shobs' = [shobs EXCEPT !.ioerr = TRUE]
          /\ UNCHANGED inodes
    /\ UNCHANGED <<ent, sd, peer, mgrVars, ctorVars>>

\* the end of a pass without flush() and fsync()
SfSyncSkipped ==
    /\ sf.pc = "write"
    /\ sf.written >= sf.size
    /\ sf' = [sf EXCEPT !.pc = "progress"]
    /\ UNCHANGED <<ent, inodes, shobs, sd, peer, mgrVars, ctorVars>>

\* lines 126-127  fh.flush(); os.fsync(fh.fileno())
SfSync ==
    /\ sf.pc = "write"
    /\ sf.written >= sf.size
    /\ \/ /\ sf' = [sf EXCEPT !.pc = "progress"]
          /\ shobs' = [shobs EXCEPT !.synced = sf.p]
       \/ /\ sf.faulty
          /\ sf' = IoFailed
          /\ shobs' = [shobs EXCEPT !.ioerr = TRUE]
    /\ UNCHANGED <<ent, inodes, sd, peer, mgrVars, ctorVars>>

\* lines 128-129  if progress: progress(p, passes); then the next pass
\* (line 117-119: seek(0), written = 0) or the end of _overwrite
\* With _file_cb of shred_directory (lines 223-226) as the callback, the
\* caller's progress, if any, receives (done + cur, total_passes).
SfProgress ==
    /\ sf.pc = "progress"
    /\ LET cb == IF sf.progress = "_file_cb" THEN sd.progress ELSE sf.progress IN
       IF cb = "raises"
       THEN /\ sf' = Failed("callback", "shred error: progress callback raised")
            /\ UNCHANGED <<shobs, sd>>
       ELSE /\ sf' = IF sf.p < sf.passes
                     THEN [sf EXCEPT !.pc = "write", !.p = @ + 1, !.written = 0]
                     ELSE [sf EXCEPT !.pc = "finalize"]
            /\ shobs' = [shobs EXCEPT !.calls = IF cb = "ok" THEN @ + 1 ELSE @]
            /\ sd' = IF sf.progress = "_file_cb" /\ cb = "ok"
                     THEN [sd EXCEPT !.log = Append(@, <<sd.done + sf.p, sd.total_passes>>)]
                     ELSE sd
    /\ UNCHANGED <<ent, inodes, peer, mgrVars, ctorVars>>

\* a destination that drops the directories of the original location
DestinationFlat(root, scrambled) == Append(root, Name(scrambled))

\* lines 182-183  rel = scrambled.name if keep_root == scrambled.parent
\*                else scrambled.relative_to(scrambled.anchor)
Destination(root, scrambled) ==
    IF root = Parent(scrambled) THEN Append(root, Name(scrambled))
    ELSE root \o scrambled

\* lines 178-186  keep_bytes: keep_root is checked, then the file is moved
SfMove ==
    /\ sf.pc = "finalize"
    /\ sf.keep_bytes
    /\ IF sf.keep_root = <<>>
       THEN /\ sf' = Failed("keep_root",
                            "shred error: keep_root must be set when keep_bytes=True")
            /\ UNCHANGED <<ent, inodes, shobs>>
       ELSE \/ LET dst == Destination(sf.keep_root, sf.scrambled) IN
               /\ ent' = With(Without(ent, sf.scrambled), dst, ent[sf.scrambled])
               /\ inodes' = IF dst = sf.scrambled THEN inodes ELSE Unlinked(inodes, dst)
               /\ sf' = [sf EXCEPT !.pc = "done",
                                   !.result = [ok |-> TRUE, cause |-> "none", raised |-> FALSE,
                                               msg |-> "shredded and moved to dst"]]
               /\ UNCHANGED shobs
            \/ /\ sf.faulty
               /\ sf' = IoFailed
               /\ shobs' = [shobs EXCEPT !.ioerr = TRUE]
               /\ UNCHANGED <<ent, inodes>>
    /\ UNCHANGED <<sd, peer, mgrVars, ctorVars>>

\* lines 187-189  scrambled.unlink(); return True, "shredded & deleted"
SfUnlink ==
    /\ sf.pc = "finalize"
    /\ ~sf.keep_bytes
    /\ \/ /\ ent' = Without(ent, sf.scrambled)
          /\ inodes' = Unlinked(inodes, sf.scrambled)
          /\ sf' = [sf EXCEPT !.pc = "done",
                              !.result = [ok |-> TRUE, cause |-> "none", raised |-> FALSE,
                                          msg |-> "shredded & deleted"]]
          /\ UNCHANGED shobs
       \/ /\ sf.faulty
          /\ sf' = IoFailed
          /\ shobs' = [shobs EXCEPT !.ioerr = TRUE]
          /\ UNCHANGED <<ent, inodes>>
    /\ UNCHANGED <<sd, peer, mgrVars, ctorVars>>

ShredNext ==
    \/ SfExists
    \/ SfIsSymlink
    \/ SfNlink
    \/ SfPasses
    \/ SfRename
    \/ SfOpen
    \/ SfWrite
    \/ SfSync
    \/ SfProgress
    \/ SfMove
    \/ SfUnlink

\* ------------------------------------------------------------------------
\* Part IV: shred_directory  (core/secure_delete.py)
\* ------------------------------------------------------------------------
\* the tree of the scenario: the directory, two levels of subdirectories,
\* a file at each level, and a directory outside of the tree
Root     == <<"d">>
SubDir   == <<"d", "sub">>
DeepDir  == <<"d", "sub", "in">>
OutDir   == <<"o">>
KeepDir  == <<"k">>
FileA    == <<"d", "a">>
FileZ    == <<"d", "sub", "z">>
FileB    == <<"d", "sub", "in", "b">>
LinkL    == <<"d", "l">>
HardH    == <<"d", "h">>
OutFile  == <<"o", "x">>
Gone     == <<"o", "gone">>

TreeKinds == {"not_dir", "empty", "only_dirs", "plain", "link_file",
              "link_dir", "link_dangling", "hardlink"}
DirPassInputs == {0, 1, 2, 35, 36}

\* keep_root as the caller gives it: None, a str or a Path
NoKeepRoot == [type |-> "NoneType", path |-> <<>>]
DirKeepInputs ==
    {[keep_bytes |-> FALSE, keep_root |-> NoKeepRoot],
     [keep_bytes |-> TRUE,  keep_root |-> NoKeepRoot]}
    \cup {[keep_bytes |-> TRUE, keep_root |-> [type |-> ty, path |-> kp]] :
             ty \in {"str", "Path"}, kp \in {KeepDir, SubDir}}
    \cup {[keep_bytes |-> TRUE, keep_root |-> [type |-> "Path", path |-> Root]]}

DirEntry == [kind |-> "dir"]
FileEntry(n) == [kind |-> "file", ino |-> n]
LinkEntry(to) == [kind |-> "symlink", to |-> to]
Entries(ps, e) == [q \in ps |-> e]

TreeEnt(kind) ==
    LET out   == Entries({OutDir, KeepDir}, DirEntry) @@ (OutFile :> FileEntry(4))
        top   == Entries({Root}, DirEntry)
        dirs  == Entries({Root, SubDir, DeepDir}, DirEntry)
        a     == (FileA :> FileEntry(1))
        ab    == a @@ (FileB :> FileEntry(3))
    IN CASE kind = "not_dir"       -> out @@ (Root :> FileEntry(1))
         [] kind = "empty"         -> out @@ top
         [] kind = "only_dirs"     -> out @@ dirs
         [] kind = "plain"         -> out @@ dirs @@ ab @@ (FileZ :> FileEntry(2))
         [] kind = "link_file"     -> out @@ dirs @@ ab @@ (LinkL :> LinkEntry(OutFile))
         [] kind = "link_dir"      -> out @@ top @@ a @@ (LinkL :> LinkEntry(OutDir))
         [] kind = "link_dangling" -> out @@ top @@ a @@ (LinkL :> LinkEntry(Gone))
         [] kind = "hardlink"      -> out @@ dirs @@ ab @@ (HardH :> FileEntry(4))

\* inode n -> link count (the names TreeEnt gives it), size, content
TreeInodes(kind) ==
    LET names(n) == Cardinality({q \in DOMAIN TreeEnt(kind) :
                        TreeEnt(kind)[q].kind = "file" /\ TreeEnt(kind)[q].ino = n})
        size(n) == IF n = 2 THEN 0 ELSE 1000
    IN [n \in 1..4 |-> [nlink |-> names(n), size |-> size(n), data |-> FreshData(size(n))]]

IsPrefix(parent, child) ==
    Len(parent) <= Len(child) /\ SubSeq(child, 1, Len(parent)) = parent
Under(q, dir) == IsPrefix(dir, q) /\ q # dir

\* Path.is_dir / Path.is_file follow a symlink
IsDir(q) == Resolve(q) \in DOMAIN ent /\ ent[Resolve(q)].kind = "dir"
IsFile(q) == Resolve(q) \in DOMAIN ent /\ ent[Resolve(q)].kind = "file"

\* line 217  directory.rglob("*"): every entry below the directory; a
\* symlink to a directory is yielded, not descended into
RGlob(dir) == {q \in DOMAIN ent : Under(q, dir)}

\* an enumeration that looks at the directory's own entries only
FilesTopLevelOnly(dir) == {q \in RGlob(dir) : IsFile(q) /\ Len(q) = Len(dir) + 1}

\* line 217  [p for p in directory.rglob("*") if p.is_file()]
Files(dir) == {q \in RGlob(dir) : IsFile(q)}

\* the orders in which the operating system may list a set of entries
Orders(S) == {q \in [1..Cardinality(S) -> S] :
                \A i, j \in DOMAIN q : i # j => q[i] # q[j]}

\* lines 100-106  child.relative_to(parent): AttributeError on a str,
\* ValueError (-> False) when parent is no prefix of child
_is_subdir(child, parent) ==
    IF child.type # "Path" THEN "AttributeError"
    ELSE IF IsPrefix(parent, child.path) THEN "True" ELSE "False"

\* shred_directory(directory, passes=, keep_bytes=, keep_root=, progress=)
\* about to run line 209
DirInit ==
    \E kind \in TreeKinds, n \in DirPassInputs, keep \in DirKeepInputs,
       cb \in Callbacks, faulty \in BOOLEAN :
       /\ ent = TreeEnt(kind)
       /\ inodes = TreeInodes(kind)
       /\ sf = [pc |-> "none"]
       /\ shobs = [kind |-> kind, ent0 |-> ent, inodes0 |-> inodes,
                   queried |-> FALSE, ioerr |-> FALSE, draws |-> 0, calls |-> 0,
                   synced |-> 0]
       /\ sd = [pc |-> "is_dir", directory |-> Root, passes |-> n,
                keep_bytes |-> keep.keep_bytes, keep_root |-> keep.keep_root,
                progress |-> cb, faulty |-> faulty, files |-> <<>>, i |-> 0,
                done |-> 0, total_passes |-> 0, log |-> <<>>, ran |-> <<>>,
                failed |-> <<>>, result |-> NoResult]
       /\ PeerParked

\* lines 242-244  except Exception as exc: return False, f"dir-shred error: {exc}"
DirFailed(cause, text) ==
    [sd EXCEPT !.pc = "done", !.result = Outcome(cause, text)]

\* lines 211-212  if not directory.is_dir(): raise ShredError(...)
DirIsDir ==
    /\ sd.pc = "is_dir"
    /\ sd' = IF IsDir(sd.directory) THEN [sd EXCEPT !.pc = "keep_root"]
             ELSE DirFailed("not_dir", "dir-shred error: target is not a directory")
    /\ UNCHANGED <<ent, inodes, sf, shobs, peer, mgrVars, ctorVars>>

\* lines 214-215  if keep_bytes and keep_root and _is_subdir(keep_root, directory)
DirKeepRoot ==
    /\ sd.pc = "keep_root"
    /\ sd' = IF sd.keep_bytes /\ sd.keep_root.path # <<>>
             THEN CASE _is_subdir(sd.keep_root, sd.directory) = "AttributeError" ->
                          DirFailed("attribute",
                              "dir-shred error: 'str' object has no attribute 'relative_to'")
                    [] _is_subdir(sd.keep_root, sd.directory) = "True" ->
                          DirFailed("containment",
                              "dir-shred error: keep_root cannot be inside target directory")
                    [] OTHER -> [sd EXCEPT !.pc = "list"]
             ELSE [sd EXCEPT !.pc = "list"]
    /\ UNCHANGED <<ent, inodes, sf, shobs, peer, mgrVars, ctorVars>>

\* lines 217-219  files = [...]; total_passes = len(files) * passes; done = 0
DirList ==
    /\ sd.pc = "list"
    /\ \E q \in Orders(Files(sd.directory)) :
          sd' = [sd EXCEPT !.pc = "loop", !.files = q, !.i = 1, !.done = 0,
                           !.total_passes = Len(q) * sd.passes]
    /\ UNCHANGED <<ent, inodes, sf, shobs, peer, mgrVars, ctorVars>>

\* lines 221-234  for f in files: shred_file(f, passes=, keep_bytes=,
\* keep_root=, progress=_file_cb)
DirCallShredFile ==
    /\ sd.pc = "loop"
    /\ sd.i <= Len(sd.files)
    /\ sf' = [pc |-> "exists", path |-> sd.files[sd.i], passes |-> sd.passes,
              keep_bytes |-> sd.keep_bytes, keep_root |-> sd.keep_root.path,
              progress |-> "_file_cb", faulty |-> sd.faulty, scrambled |-> <<>>,
              size |-> 0, p |-> 0, written |-> 0, result |-> NoResult]
    /\ sd' = [sd EXCEPT !.pc = "in_file"]
    /\ UNCHANGED <<ent, inodes, shobs, peer, mgrVars, ctorVars>>

\* line 237 with one file counted as one unit of progress
DoneAfterFileByOne(done, passes) == done + 1

\* line 237  done += passes
DoneAfterFile(done, passes) == done + passes

\* lines 235-236 left out: the loop goes on after a failed file
DirFileReturnGoingOn ==
    /\ sd.pc = "in_file"
    /\ sf.pc = "done"
    /\ sd' = [sd EXCEPT !.pc = "loop", !.i = @ + 1,
                        !.done = DoneAfterFile(sd.done, sd.passes),
                        !.ran = Append(@, [file |-> sf.path, p |-> sf.p, ok |-> sf.result.ok])]
    /\ UNCHANGED <<ent, inodes, sf, shobs, peer, mgrVars, ctorVars>>

\* lines 228-237  ok, _ = shred_file(...); if not ok: raise ShredError(
\* f"failed on {f}"); done += passes
DirFileReturn ==
    /\ sd.pc = "in_file"
    /\ sf.pc = "done"
    /\ sd' = IF sf.result.raised
             THEN DirFailed(sf.result.cause, "dir-shred error: exception of shred_file")
             ELSE IF ~sf.result.ok
             THEN [DirFailed("failed_on", "dir-shred error: failed on f")
                      EXCEPT !.failed = sf.path]
             ELSE [sd EXCEPT !.pc = "loop", !.i = @ + 1,
                             !.done = DoneAfterFile(sd.done, sd.passes),
                             !.ran = Append(@, [file |-> sf.path, p |-> sf.p, ok |-> TRUE])]
    /\ UNCHANGED <<ent, inodes, sf, shobs, peer, mgrVars, ctorVars>>

\* shutil.rmtree(dir): the directory and everything below it is removed; a
\* symlink is removed, not followed
RmTreeEnt(dir) == [q \in {x \in DOMAIN ent : ~IsPrefix(dir, x)} |-> ent[q]]
RmTreeInodes(dir) ==
    [n \in DOMAIN inodes |->
        [inodes[n] EXCEPT !.nlink = @ - Cardinality({q \in DOMAIN ent :
            IsPrefix(dir, q) /\ ent[q].kind = "file" /\ ent[q].ino = n})]]

\* lines 239-241  if not keep_bytes: shutil.rmtree(directory)
\*                return True, "directory shredded"
DirFinish ==
    /\ sd.pc = "loop"
    /\ sd.i > Len(sd.files)
    /\ LET success == [sd EXCEPT !.pc = "done",
                          !.result = [ok |-> TRUE, cause |-> "none", raised |-> FALSE,
                                      msg |-> "directory shredded"]]
       IN IF sd.keep_bytes
          THEN /\ sd' = success
               /\ UNCHANGED <<ent, inodes, shobs>>
          ELSE \/ /\ ent' = RmTreeEnt(sd.directory)
                  /\ inodes' = RmTreeInodes(sd.directory)
                  /\ sd' = success
                  /\ UNCHANGED shobs
               \/ /\ sd.faulty
                  /\ sd' = DirFailed("io", "dir-shred error: [Errno] I/O error")
                  /\ shobs' = [shobs EXCEPT !.ioerr = TRUE]
                  /\ UNCHANGED <<ent, inodes>>
    /\ UNCHANGED <<sf, peer, mgrVars, ctorVars>>

DirNext ==
    \/ DirIsDir
    \/ DirKeepRoot
    \/ DirList
    \/ DirCallShredFile
    \/ DirFileReturn
    \/ DirFinish

Init == MgrInit /\ CtorInit /\ ShredParked

Next == MgrNext

Spec == Init /\ [][Next]_vars

\* constructions alone: the manager of Part I stays as it is
InitNew == MgrInit /\ WIPE_FILES = FALSE /\ CtorInit /\ ShredParked

SpecNew == InitNew /\ [][CtorNext]_vars

\* one shred_file call: the manager of Parts I and II stays as it is
InitShred == MgrInit /\ WIPE_FILES = FALSE /\ CtorInit /\ ShredInit

SpecShred == InitShred /\ [][ShredNext]_vars

\* one shred_directory call, with the shred_file calls it makes
InitDir == MgrInit /\ WIPE_FILES = FALSE /\ CtorInit /\ DirInit

NextDir == ShredNext \/ DirNext

SpecDir == InitDir /\ [][NextDir]_vars

\* one call of either entry point
InitApi == InitShred \/ InitDir

SpecApi == InitApi /\ [][NextDir]_vars

\* ------------------------------------------------------------------------
\* Part V: two shred_file calls on one target, on two worker threads
\* ------------------------------------------------------------------------
\* inputs of the two calls
RaceKinds      == {"file", "hardlinked"}
RaceSizeInputs == {0, _BUFFER + 1}
RacePassInputs == {0, 1, 2}
RaceKeepInputs == {[keep_bytes |-> FALSE, keep_root |-> <<>>],
                   [keep_bytes |-> TRUE,  keep_root |-> <<"k">>]}

\* shredder_dialogs.py:164-171  the call shred_file(path, passes=, keep_bytes=,
\* keep_root=, progress=prog.update) made by worker thread t, about to run
\* line 157 of secure_delete.py
ShredCall(t, n, keep, faulty) ==
    [pc |-> "exists", path |-> Target, passes |-> n,
     keep_bytes |-> keep.keep_bytes, keep_root |-> keep.keep_root,
     progress |-> "ok", faulty |-> faulty, scrambled |-> <<>>,
     size |-> 0, p |-> 0, written |-> 0, result |-> NoResult, thread |-> t]

\* shredder_dialogs.py:139-142  _run_thread started twice on one target: two
\* daemon threads, each with its own shred_file call, over one filesystem
RaceInit ==
    \E kind \in RaceKinds, size \in RaceSizeInputs,
       n1 \in RacePassInputs, n2 \in RacePassInputs,
       k1 \in RaceKeepInputs, k2 \in RaceKeepInputs,
       f1 \in BOOLEAN, f2 \in BOOLEAN :
       /\ (kind = "hardlinked" => size = 0)
       /\ ent = ScenarioEnt(kind, FALSE)
       /\ inodes = ScenarioInodes(kind, size, FALSE)
       /\ sf = ShredCall("w1", n1, k1, f1)
       /\ peer = ShredCall("w2", n2, k2, f2)
       /\ shobs = [kind |-> kind, ent0 |-> ent, inodes0 |-> inodes,
                   queried |-> FALSE, ioerr |-> FALSE, draws |-> 0, calls |-> 0,
                   synced |-> 0]
       /\ DirParked

\* the interpreter hands the processor to the other worker thread between
\* two steps of the running one
ThreadSwitch ==
    /\ peer.pc \notin {"none", "done"}
    /\ sf' = peer
    /\ peer' = sf
    /\ UNCHANGED <<ent, inodes, shobs, sd, mgrVars, ctorVars>>

InitRace == MgrInit /\ WIPE_FILES = FALSE /\ CtorInit /\ RaceInit

NextRace == ShredNext \/ ThreadSwitch

SpecRace == InitRace /\ [][NextRace]_vars

\* ------------------------------------------------------------------------
\* Properties of the CleanupManager
\* ------------------------------------------------------------------------
Frames == {<<t, j>> \in Threads \X (1..(MaxSignals + 2)) : j <= Len(stack[t])}
FrameAt(x) == stack[x[1]][x[2]]
SecretsZeroed(n) ==
    \A i \in 1..n : key_blobs[i] = Zeros(Len(obs.registered[i]))

\* C1: however many wipe() invocations arrive, from whichever threads and
\* hooks, the wipe body executes at most once: at most one invocation finds
\* _ran false, every secret is scrubbed at most once, the clipboard is
\* flushed at most once, and an invocation that found _ran true did nothing.
WipeBodyAtMostOnce ==
    /\ obs.bodyRuns <= 1
    /\ obs.flushes <= 1
    /\ \A i \in 1..Len(obs.scrubs) : obs.scrubs[i] <= 1
    /\ Cardinality({x \in Frames : FrameAt(x).pc \in {"setran", "paths", "secrets"}}) <= 1
    /\ \A x \in Frames : FrameAt(x).pc \in {"paths", "secrets"} => FrameAt(x).did

\* C1 witness: the body has run once and a second invocation has returned
\* without running it
WipeAbsorbedWitness ==
    /\ obs.bodyRuns = 1
    /\ obs.flushes = 1
    /\ \E x \in Frames : FrameAt(x).pc = "ret" /\ ~FrameAt(x).did

\* C2 (as claimed): a trigger that fires on the thread already inside the
\* wipe body is absorbed: the nested wipe() never waits for the lock that an
\* outer frame of the same thread holds.
ReentrantTriggerAbsorbed ==
    \A x \in Frames : \A y \in Frames :
        (x[1] = y[1] /\ x[2] < y[2] /\ FrameAt(x).pc \in BodyPcs)
            => FrameAt(y).pc # "acquire"

\* C3: once the wipe body has completed, every secret registered before it
\* began is all zero bytes and has its original length.
SecretsZeroedAfterWipe ==
    obs.bodyDone => SecretsZeroed(obs.nBegin)

\* C3 witness: a wipe completed with a non-zero secret registered before it
SecretsZeroedWitness ==
    /\ obs.bodyDone
    /\ obs.nBegin >= 1
    /\ obs.registered[1] # Zeros(Len(obs.registered[1]))
    /\ Len(key_blobs[1]) = 2

\* C4: on the signal and exception paths wipe() has completed (secrets
\* scrubbed, clipboard empty) when the handler requests exit; the exit hook
\* that fires afterwards adds nothing; after a graceful close the exit hook
\* itself ran the body; the clipboard is empty once the process has ended.
HooksWipeBeforeExit ==
    /\ \A x \in Frames :
          (FrameAt(x).pc = "ret" /\ FrameAt(x).kind \in HookKinds \cup {"atexit"})
              => (obs.bodyDone /\ clipboard = "" /\ SecretsZeroed(obs.nBegin))
    /\ phase = "ended" =>
          (obs.bodyDone /\ clipboard = "" /\ obs.bodyRuns = 1 /\ obs.flushes = 1)
    /\ (phase = "ended" /\ obs.bodyBy \notin HookKinds \cup {"call"}) => obs.bodyBy = "atexit"

\* C4 witness: the signal handler wiped, the exit hook ran and the process
\* has ended
HooksWipeWitness ==
    /\ phase = "ended"
    /\ obs.bodyBy = "signal"
    /\ clipboard = ""

\* C6 (as claimed): registrations are serialised against a running wipe, and
\* the collection the wipe is iterating never changes under it.
RegistrationSerialisedWithWipe ==
    [][(locked /\ locked') => (paths' = paths /\ Len(key_blobs') = Len(key_blobs))]_vars

DefaultPolicyLeavesFiles ==
    ~WIPE_FILES => fs = obs.fs0

\* C8 witness: a wipe completed under the default policy with an added,
\* existing path registered
DefaultPolicyWitness ==
    /\ ~WIPE_FILES
    /\ obs.bodyDone
    /\ "extra" \in obs.snapBegin
    /\ fs["extra"] = "intact"

\* ------------------------------------------------------------------------
\* Properties of construction
\* ------------------------------------------------------------------------
\* C5 (as claimed): every construction, racing or not, returns one and the
\* same instance; its state is initialised once and its hooks registered
\* exactly once; no construction resets registered secrets or _ran.
SingleInstanceInitialisedOnce ==
    /\ Cardinality(cobs.got) <= 1
    /\ Cardinality({o \in ObjIds : objs[o].made}) <= 1
    /\ cobs.inits <= 1
    /\ cobs.hooks <= 1
    /\ ~cobs.raised
    /\ ~cobs.reset

\* ------------------------------------------------------------------------
\* Properties of shred_file
\* ------------------------------------------------------------------------
\* the call ran to its return without an I/O failure and without its
\* progress callback raising
PlainRun ==
    /\ sf.pc = "done"
    /\ ~shobs.ioerr
    /\ sf.progress # "raises"

\* C9: for every passes in 1..35 and every ordinary regular file (no
\* symlink, link count 1) a shred_file call with keep_bytes=False whose I/O
\* does not fail and whose callback returns gives (True, "shredded &
\* deleted"), and afterwards nothing exists at the original path nor at the
\* scrambled sibling path.
ShredDeletesOrdinaryFile ==
    (/\ PlainRun
     /\ shobs.kind = "file"
     /\ sf.passes \in MIN_PASSES..MAX_PASSES
     /\ ~sf.keep_bytes)
    => /\ sf.result.ok
       /\ sf.result.msg = "shredded & deleted"
       /\ sf.scrambled # <<>>
       /\ ~Exists(sf.path)
       /\ ~Exists(sf.scrambled)
       /\ inodes[1].nlink = 0

\* C9 witness: a file of more than one buffer shredded with the largest
\* accepted pass count, every pass overwritten, then unlinked
ShredDeletesWitness ==
    /\ PlainRun
    /\ shobs.kind = "file"
    /\ sf.passes = MAX_PASSES
    /\ sf.p = MAX_PASSES
    /\ sf.size > _BUFFER
    /\ ~sf.keep_bytes
    /\ sf.result.ok
    /\ \A k \in DOMAIN inodes[1].data : inodes[1].data[k][1] = "random"

\* C10 (as claimed): for every passes outside 1..35 and every target the
\* call fails because of the pass count, and the target is neither queried
\* nor renamed, written or removed.
InvalidPassesRejectedFirst ==
    (sf.pc = "done" /\ (sf.passes < MIN_PASSES \/ sf.passes > MAX_PASSES))
    => /\ ~sf.result.ok
       /\ sf.result.cause = "passes"
       /\ ~shobs.queried
       /\ ent = shobs.ent0
       /\ inodes = shobs.inodes0

SymlinkKinds == {"symlink_file", "symlink_dir", "symlink_dangling"}

\* the call left every directory entry and every byte as it found them
ShredTouchedNothing ==
    /\ ent = shobs.ent0
    /\ inodes = shobs.inodes0

\* C11 (as claimed): for every symbolic-link target, whether its referent is
\* a regular file, a directory or missing, the call fails with the symlink
\* refusal as its cause, and neither link nor referent is touched.
SymlinkAlwaysRefused ==
    (sf.pc = "done" /\ shobs.kind \in SymlinkKinds)
    => /\ ~sf.result.ok
       /\ sf.result.cause = "symlink"
       /\ ShredTouchedNothing

\* C12: for every file whose link count is greater than 1 the call fails
\* with the hard-link refusal as its cause, and the file keeps its names and
\* every byte of its content.
HardlinkRefused ==
    (sf.pc = "done" /\ shobs.kind = "hardlinked")
    => /\ ~sf.result.ok
       /\ sf.result.cause = "hardlink"
       /\ sf.result.msg = "shred error: refusing to shred hard-linked file"
       /\ ShredTouchedNothing

\* C12 witness: a hard-linked file of more than one buffer refused under an
\* accepted pass count, both of its names still bearing the original bytes
HardlinkRefusedWitness ==
    /\ sf.pc = "done"
    /\ shobs.kind = "hardlinked"
    /\ sf.passes \in MIN_PASSES..MAX_PASSES
    /\ sf.result.cause = "hardlink"
    /\ inodes[1].size > _BUFFER
    /\ inodes[1].nlink = 2
    /\ ent[Target].ino = 1 /\ ent[OtherLink].ino = 1
    /\ \A k \in DOMAIN inodes[1].data : inodes[1].data[k] = <<"orig">>

\* ------------------------------------------------------------------------
\* Properties of the two entry points together
\* ------------------------------------------------------------------------
\* what the caller of a finished call holds: a pair, and for a failure the
\* pair (False, message)
ReturnedPair(res) ==
    /\ ~res.raised
    /\ res.cause # "none" => (~res.ok /\ res.msg # "")
    /\ res.cause = "none" => res.ok

StartFiles ==
    {q \in DOMAIN shobs.ent0 : Under(q, Root) /\ shobs.ent0[q].kind = "file"}

ValidPasses(n) == n \in MIN_PASSES..MAX_PASSES

\* C14 (as claimed): with keep_bytes=True and a keep_root equal to or
\* inside the target directory, the call fails for the containment violation
\* and nothing is renamed, overwritten, moved, deleted or created.
NestedKeepRootRejected ==
    (/\ sd.pc = "done"
     /\ shobs.kind # "not_dir"
     /\ sd.keep_bytes
     /\ sd.keep_root.path # <<>>
     /\ IsPrefix(Root, sd.keep_root.path))
    => /\ ~sd.result.ok
       /\ sd.result.cause = "containment"
       /\ ShredTouchedNothing

\* C15: in a successful directory shred of F regular files with P passes
\* the caller's progress is called exactly F*P times, total is F*P on every
\* call, completed is filesCompletedSoFar*P + currentFilePass and never
\* decreases, and the last call has completed = total.
ProgressAggregated ==
    (sd.pc = "done" /\ sd.result.ok /\ sd.progress = "ok")
    => LET F == Cardinality(StartFiles)
           P == sd.passes
           n == Len(sd.log)
       IN /\ n = F * P
          /\ \A k \in 1..n :
                /\ sd.log[k][2] = F * P
                /\ sd.log[k][1] = ((k - 1) \div P) * P + ((k - 1) % P) + 1
                /\ k > 1 => sd.log[k - 1][1] <= sd.log[k][1]
          /\ n > 0 => sd.log[n][1] = sd.log[n][2]

\* C15 witness: three files, one of them zero-length, shredded with the
\* largest pass count; the last of the 105 calls reports 105 of 105
ProgressAggregatedWitness ==
    /\ sd.pc = "done"
    /\ sd.result.ok
    /\ sd.progress = "ok"
    /\ shobs.kind = "plain"
    /\ FileZ \in StartFiles
    /\ sd.passes = MAX_PASSES
    /\ Len(sd.log) = 3 * MAX_PASSES
    /\ sd.log[Len(sd.log)] = <<3 * MAX_PASSES, 3 * MAX_PASSES>>

\* entry q and, for a file, its content are as they were at the start
Untouched(q) ==
    /\ q \in DOMAIN ent
    /\ ent[q] = shobs.ent0[q]
    /\ ent[q].kind = "file" => inodes[ent[q].ino] = shobs.inodes0[ent[q].ino]

\* C16: the first file whose shred fails aborts the directory shred: the
\* loop never goes on after a failed file, no file enumerated after it is
\* touched, the tree is not removed, and the failure names that file.
FirstFailureAborts ==
    /\ \A k \in DOMAIN sd.ran : sd.ran[k].ok
    /\ (sd.pc = "done" /\ sd.result.cause = "failed_on")
       => /\ ~sd.result.ok
          /\ sd.failed = sd.files[sd.i]
          /\ sf.path = sd.failed /\ ~sf.result.ok
          /\ Len(sd.ran) = sd.i - 1
          /\ \A j \in (sd.i + 1)..Len(sd.files) : Untouched(sd.files[j])
          /\ \A q \in DOMAIN shobs.ent0 :
                (shobs.ent0[q].kind = "dir" /\ IsPrefix(Root, q)) => IsDir(q)

\* C16 witness: of three files the first was shredded, the second failed,
\* and the third is still in place with its original bytes
FirstFailureAbortsWitness ==
    /\ sd.pc = "done"
    /\ sd.result.cause = "failed_on"
    /\ Len(sd.files) = 3
    /\ sd.i = 2
    /\ sd.ran[1].ok
    /\ sd.files[1] \notin DOMAIN ent
    /\ sd.failed = sd.files[2]
    /\ Untouched(sd.files[3])

\* C17: whenever shred_directory reports success, every regular file that
\* was below the directory at the start has been renamed and overwritten by
\* all passes (1..35) before it was deleted or relocated; none was removed
\* without being overwritten and none was left in place.
SuccessMeansAllShredded ==
    (sd.pc = "done" /\ sd.result.ok)
    => \A q \in StartFiles :
          /\ ValidPasses(sd.passes)
          /\ \E k \in DOMAIN sd.ran :
                sd.ran[k].file = q /\ sd.ran[k].ok /\ sd.ran[k].p = sd.passes
          /\ q \notin DOMAIN ent
          /\ \A c \in DOMAIN inodes[shobs.ent0[q].ino].data :
                inodes[shobs.ent0[q].ino].data[c][1] = "random"

\* C17 witness: a tree with files at three levels shredded with two passes
\* and removed
SuccessMeansAllShreddedWitness ==
    /\ sd.pc = "done"
    /\ sd.result.ok
    /\ ~sd.keep_bytes
    /\ sd.passes = 2
    /\ StartFiles = {FileA, FileZ, FileB}
    /\ Len(sd.ran) = 3
    /\ Root \notin DOMAIN ent
    /\ inodes[3].nlink = 0 /\ inodes[3].data[1][1] = "random"

\* the call met no I/O failure and its progress callback did not raise
PlainDirRun ==
    /\ sd.pc = "done"
    /\ ~shobs.ioerr
    /\ sd.progress # "raises"

\* keep_bytes is off, or keep_root is given and lies outside the directory
KeepOptionsValid ==
    \/ ~sd.keep_bytes
    \/ sd.keep_root.path # <<>> /\ ~IsPrefix(Root, sd.keep_root.path)

\* the regular files of the tree are gone from it, overwritten
TreeFilesShredded ==
    \A q \in StartFiles :
        /\ q \notin DOMAIN ent
        /\ \A c \in DOMAIN inodes[shobs.ent0[q].ino].data :
              inodes[shobs.ent0[q].ino].data[c][1] = "random"

\* C18 (as claimed): for a directory of ordinary files and subdirectories,
\* passes in 1..35 and keep_bytes off or a keep_root (str or path object)
\* outside the directory, the call succeeds; without keep_bytes the tree no
\* longer exists, with keep_bytes every file sits under keep_root.
OrdinaryTreeShredSucceeds ==
    (/\ PlainDirRun
     /\ shobs.kind \in {"empty", "only_dirs", "plain"}
     /\ ValidPasses(sd.passes)
     /\ KeepOptionsValid)
    => /\ sd.result.ok
       /\ ~sd.keep_bytes => \A q \in DOMAIN ent : ~IsPrefix(Root, q)
       /\ sd.keep_bytes =>
             \A f \in StartFiles :
                \E q \in DOMAIN ent :
                   /\ Under(q, sd.keep_root.path)
                   /\ ent[q] = shobs.ent0[f]

\* C19 (as claimed): a symbolic link inside the tree is skipped: its
\* referent is never renamed or overwritten, the regular files of the tree
\* are shredded and the call succeeds.
LinkInTreeSkipped ==
    (/\ PlainDirRun
     /\ shobs.kind \in {"link_file", "link_dir", "link_dangling"}
     /\ ValidPasses(sd.passes)
     /\ KeepOptionsValid)
    => /\ sd.result.ok
       /\ TreeFilesShredded
       /\ OutFile \in DOMAIN ent
       /\ ent[OutFile] = shobs.ent0[OutFile]
       /\ inodes[4] = shobs.inodes0[4]

\* C20 (as claimed): for every passes outside 1..35, whatever the directory
\* contains, the call fails and nothing is renamed, overwritten or removed.
InvalidPassesDirRejected ==
    (sd.pc = "done" /\ ~ValidPasses(sd.passes))
    => /\ ~sd.result.ok
       /\ ShredTouchedNothing

\* ------------------------------------------------------------------------
\* Properties of the shred_file state machine
\* ------------------------------------------------------------------------
\* the names the inode of entry e bears
NamesOf(e) == {q \in DOMAIN ent : ent[q] = e}

AllRandom(data) ==
    /\ \A k \in DOMAIN data : data[k][1] = "random"
    /\ \A k, l \in DOMAIN data : k # l => data[k] # data[l]

\* C21: when shred_file succeeds with keep_bytes=True and keep_root = D the
\* overwritten file was moved, not copied: exactly one instance exists, it
\* lies under D below the directories of its original location (directly in
\* D when D is the file's own directory), its leaf name is the random name
\* and not the original one, and nothing remains at the original path.
KeptFileMoved ==
    (sf.pc = "done" /\ sf.result.ok /\ sf.keep_bytes)
    => LET D == sf.keep_root
           e == shobs.ent0[sf.path]
       IN /\ D # <<>>
          /\ Cardinality(NamesOf(e)) = 1
          /\ inodes[e.ino].nlink = 1
          /\ sf.path \notin DOMAIN ent
          /\ \A q \in NamesOf(e) :
                /\ Under(q, D)
                /\ Name(q) = Name(sf.scrambled)
                /\ Name(q) \in RandNames
                /\ Name(q) # Name(sf.path)
                /\ Parent(q) = IF D = Parent(sf.path) THEN D ELSE D \o Parent(sf.path)
          /\ AllRandom(inodes[e.ino].data)

\* C21 witness: a file of d moved below k/d under its random name
KeptFileMovedWitness ==
    /\ sf.pc = "done"
    /\ sf.result.ok
    /\ sf.keep_bytes
    /\ sf.keep_root = <<"k">>
    /\ \E r \in RandNames : <<"k", "d", r>> \in DOMAIN ent
    /\ Target \notin DOMAIN ent
    /\ inodes[1].size > _BUFFER

\* the content of some inode differs between the two states of a step
Writes == \E n \in DOMAIN inodes : inodes'[n].data # inodes[n].data

\* C23: every execution runs Validate, Scramble, Overwrite, Finalize in this
\* order: a byte is written only after the rename, while the original name
\* is gone, and only to the file under the scrambled name; the unlink or
\* move removes the scrambled name only, after the last pass was written
\* and synced.
ShredOrder ==
    [][/\ Writes =>
            /\ sf.pc = "write"
            /\ sf.scrambled # <<>> /\ sf.scrambled # sf.path
            /\ sf.path \notin DOMAIN ent
            /\ sf.scrambled \in DOMAIN ent
            /\ \A n \in DOMAIN inodes :
                  inodes'[n].data # inodes[n].data => n = ent[sf.scrambled].ino
       /\ (ent' # ent /\ sf.pc # "rename") =>
            /\ sf.pc = "finalize"
            /\ sf.p = sf.passes /\ sf.written = sf.size
            /\ shobs.synced = sf.passes
            /\ AllRandom(inodes[ent[sf.scrambled].ino].data)
            /\ sf.scrambled \notin DOMAIN ent'
            /\ \A q \in DOMAIN ent \ {sf.scrambled} : q \in DOMAIN ent'
       /\ (ent' # ent /\ sf.pc = "rename") =>
            /\ shobs.queried
            /\ inodes[ent[sf.path].ino].data = shobs.inodes0[ent[sf.path].ino].data
      ]_vars

\* C23 witness: a file shredded and unlinked after three passes
ShredOrderWitness ==
    /\ sf.pc = "done"
    /\ sf.result.ok
    /\ ~sf.keep_bytes
    /\ sf.passes = 3
    /\ shobs.synced = 3
    /\ sf.scrambled \notin DOMAIN ent

\* C24: the passes run in order 1..passes; each starts at offset 0 and
\* writes exactly the length read at the start, in chunks of at most
\* _BUFFER; pass p is synced before progress(p, passes) is called and before
\* the first write of pass p+1; progress is called once per pass, hence
\* passes times on success.
PassesInOrder ==
    /\ []((sf.pc = "done" /\ sf.result.ok /\ sf.progress = "ok")
            => shobs.calls = sf.passes)
    /\ [][/\ (sf.pc = "open" /\ sf'.pc = "write") =>
               /\ sf'.p = 1 /\ sf'.written = 0
               /\ sf'.size = inodes[ent[sf.scrambled].ino].size
          /\ sf'.size = sf.size \/ sf.pc = "open"
          /\ sf'.p # sf.p =>
               \/ sf.pc = "open"
               \/ /\ sf.pc = "progress"
                  /\ sf'.p = sf.p + 1 /\ sf'.written = 0
                  /\ shobs.synced = sf.p
          /\ sf'.written > sf.written =>
               /\ sf.pc = "write"
               /\ sf'.written - sf.written <= _BUFFER
               /\ sf'.written <= sf.size
               /\ shobs.synced = sf.p - 1
               /\ sf'.p = sf.p
          /\ (sf.pc = "write" /\ sf'.pc = "progress") =>
               /\ sf.written = sf.size
               /\ shobs'.synced = sf.p
          /\ (sf.pc = "progress" /\ sf'.pc # "progress") => shobs.synced = sf.p
          /\ shobs'.calls # shobs.calls =>
               /\ sf.pc = "progress"
               /\ shobs'.calls = shobs.calls + 1
               /\ shobs.calls = sf.p - 1
         ]_vars

\* C24 witness: 35 passes over a file of two chunks, 35 progress calls
PassesInOrderWitness ==
    /\ sf.pc = "done"
    /\ sf.result.ok
    /\ sf.progress = "ok"
    /\ sf.passes = MAX_PASSES
    /\ shobs.calls = MAX_PASSES
    /\ shobs.synced = MAX_PASSES
    /\ sf.size = _BUFFER + 1

\* the chunks of the file being overwritten
Chunks == inodes[ent[sf.scrambled].ino].data

\* the fill a complete pass p leaves in the file
PassFill(data, p) ==
    IF p = sf.passes THEN AllRandom(data)
    ELSE \A k \in DOMAIN data : data[k] = <<"pattern", p % 256>>

\* C25: for every passes in 1..35 only the last pass is random, drawn anew
\* for every chunk, every earlier pass p fills the file with the byte p mod
\* 256; with passes = 1 the single pass is random, and what the overwrite
\* leaves on disk is always the random pass.
LastPassRandom ==
    /\ sf.pc = "progress" => PassFill(Chunks, sf.p)
    /\ sf.pc = "finalize" => AllRandom(Chunks)
    /\ sf.pc = "write" =>
          \A k \in DOMAIN Chunks :
             IF (k - 1) * _BUFFER < sf.written
             THEN Chunks[k] = ChunkFill(sf.p, sf.passes, Chunks[k][2])
                  /\ (sf.p = sf.passes => Chunks[k][1] = "random")
             ELSE IF sf.p = 1 THEN Chunks[k] = <<"orig">>
                  ELSE Chunks[k] = <<"pattern", (sf.p - 1) % 256>>

\* C25 witness: after two pattern passes the third pass has left two
\* different random chunks
LastPassRandomWitness ==
    /\ sf.pc = "finalize"
    /\ sf.passes = 3
    /\ Len(Chunks) = 2
    /\ Chunks[1][1] = "random" /\ Chunks[2][1] = "random"
    /\ Chunks[1] # Chunks[2]

\* C26: a failure at any step ends the call with no retry and no rollback:
\* before the rename the file keeps name and content; after it the file
\* stays under its scrambled name, neither renamed back nor deleted; the
\* result is a failure carrying its cause.
FailureLeavesLastState ==
    (sf.pc = "done" /\ ~sf.result.ok)
    => /\ sf.result.cause \notin {"none", "pending"}
       /\ sf.result.msg # ""
       /\ sf.scrambled = <<>> => ShredTouchedNothing
       /\ sf.scrambled # <<>> =>
             /\ sf.path \notin DOMAIN ent
             /\ sf.scrambled \in DOMAIN ent
             /\ ent[sf.scrambled] = shobs.ent0[sf.path]
             /\ inodes[ent[sf.scrambled].ino].nlink = 1

\* C26 witness: an I/O failure in the second pass leaves the file under its
\* scrambled name, its first chunk of pass 2 and its second chunk of pass 1
FailureLeavesLastStateWitness ==
    /\ sf.pc = "done"
    /\ sf.result.cause = "io"
    /\ sf.scrambled \in DOMAIN ent
    /\ sf.p = 2
    /\ Len(Chunks) = 2
    /\ Chunks[1] = <<"pattern", 2>>
    /\ Chunks[2] = <<"pattern", 1>>

\* the progress callback the caller of the entry point gave
CallerProgress == IF sf.progress = "_file_cb" THEN sd.progress ELSE sf.progress

\* C27 (as claimed): keep_bytes=True without keep_root is rejected before
\* any destructive step: the call (also each shred_file call of a directory
\* shred) fails for the missing destination while the target still has its
\* original name and content.
MissingDestinationRejectedFirst ==
    (/\ sf.pc = "done"
     /\ sf.keep_bytes /\ sf.keep_root = <<>>
     /\ sf.path \in DOMAIN shobs.ent0
     /\ shobs.ent0[sf.path].kind = "file"
     /\ shobs.inodes0[shobs.ent0[sf.path].ino].nlink = 1
     /\ ValidPasses(sf.passes)
     /\ ~shobs.ioerr
     /\ CallerProgress # "raises")
    => /\ ~sf.result.ok
       /\ sf.result.cause = "keep_root"
       /\ Untouched(sf.path)

\* C30 (as claimed): shred_file changes nothing but its target: every other
\* existing file keeps its name and content, whatever random name is drawn
\* and wherever the file is moved.
OnlyTargetChanged ==
    sf.pc = "done" => \A q \in DOMAIN shobs.ent0 \ {sf.path} : Untouched(q)

\* ------------------------------------------------------------------------
\* Further properties of the CleanupManager
\* ------------------------------------------------------------------------
\* C22: no wipe() call returns while the body is still running in another
\* thread: at the return of every invocation, whoever made it, the body has
\* completed, no frame is inside it, the secrets registered before it began
\* are zero and the clipboard has been cleared.
NoReturnBeforeBodyDone ==
    \A x \in Frames :
        FrameAt(x).pc = "ret"
        => /\ obs.bodyDone
           /\ clipboard = ""
           /\ SecretsZeroed(obs.nBegin)
           /\ \A y \in Frames : FrameAt(y).pc \notin {"setran", "paths", "secrets"}

\* C22 witness: two threads called wipe(); one ran the body, the other
\* waited for the lock and returned without running it
NoReturnBeforeBodyDoneWitness ==
    /\ obs.nBegin >= 1
    /\ \E x \in Frames : \E y \in Frames :
          /\ x[1] # y[1]
          /\ FrameAt(x).pc = "ret" /\ FrameAt(x).did
          /\ FrameAt(y).pc = "ret" /\ ~FrameAt(y).did /\ FrameAt(y).kind = "call"

\* C28: add_secret keeps a private copy: neither add_secret nor wipe()
\* changes the buffer the caller passed in; after the wipe the caller's
\* buffer holds the original bytes and the registry's copy is zero.
CallerBufferKept ==
    /\ Len(caller_bufs) = Len(key_blobs)
    /\ \A i \in DOMAIN caller_bufs : caller_bufs[i] = obs.registered[i]
    /\ obs.bodyDone =>
          \A i \in 1..obs.nBegin :
             /\ key_blobs[i] = Zeros(Len(caller_bufs[i]))
             /\ caller_bufs[i] = obs.registered[i]

\* C28 witness: after the wipe the caller still holds 7, 9 and the registry
\* holds 0, 0
CallerBufferKeptWitness ==
    /\ obs.bodyDone
    /\ obs.nBegin = 1
    /\ caller_bufs[1] = <<7, 9>>
    /\ key_blobs[1] = <<0, 0>>

\* C29 (as claimed): every secret the registry holds when the process has
\* ended is zero-filled, also one registered after a wipe that left the
\* process running.
SecretsZeroedAtEnd ==
    phase = "ended" => SecretsZeroed(Len(key_blobs))

\* ------------------------------------------------------------------------
\* Properties of two concurrent shred_file calls
\* ------------------------------------------------------------------------
\* the inode the target named when the two calls started
TargetIno == shobs.ent0[Target].ino
BothReturned == sf.pc = "done" /\ peer.pc = "done"

\* what the running call may do to the filesystem in one step: it changes
\* only the target's inode, through the handle it scrambled itself, and it
\* takes away only the target's name (the scramble) or its own handle
OwnHandleOnly ==
    /\ \A n \in DOMAIN inodes :
          inodes'[n] # inodes[n] =>
             /\ n = TargetIno
             /\ sf.scrambled \in DOMAIN ent
             /\ ent[sf.scrambled].ino = n
             /\ peer.scrambled = <<>>
    /\ \A q \in DOMAIN ent \ DOMAIN ent' :
          \/ q = sf.path /\ sf.pc = "rename" /\ peer.scrambled = <<>>
          \/ q = sf.scrambled /\ ent[q].ino = TargetIno /\ peer.scrambled = <<>>

\* C31: when two shred_file calls run concurrently on the same target path
\* from two worker threads, in every interleaving at most one of them returns
\* success, a call never raises but returns its failure, at most one call
\* ever holds a scrambled handle, and every write or removal is made by that
\* call on the file it scrambled from the target.
ConcurrentShredExclusive ==
    /\ [](/\ ~(sf.scrambled # <<>> /\ peer.scrambled # <<>>)
          /\ ~(sf.result.ok /\ peer.result.ok)
          /\ ~sf.result.raised /\ ~peer.result.raised
          /\ BothReturned =>
                \E c \in {sf, peer} : ~c.result.ok /\ c.result.msg # "")
    /\ [][OwnHandleOnly]_vars

\* both calls passed every check while the target was there; one scrambled
\* it and returned success, the other lost the race at os.replace
ConcurrentShredWitness ==
    /\ BothReturned
    /\ \/ sf.result.ok /\ peer.result.cause = "rename_gone"
       \/ peer.result.ok /\ sf.result.cause = "rename_gone"
    /\ TargetIno \in DOMAIN inodes
    /\ inodes[TargetIno].data # shobs.inodes0[TargetIno].data

====
